---- MODULE Spec2Model ----
(***************************************************************************)
(* Model of migrations/001_seed_monitors.ts: the monitor seeder of the     *)
(* Uptime Kuma theme workbench.  The state is the `monitor` table of the   *)
(* SQLite database, the position of main() in its run, and the locals of   *)
(* seedMonitors.  Text values that the SQL compares character by character *)
(* (the url column) are sequences of one-character strings, so that the    *)
(* `=` of the existence check and the `LIKE` of the clear are computed as  *)
(* SQLite computes them.                                                   *)
(***************************************************************************)
EXTENDS Integers, Sequences, FiniteSets, TLC

\* ------------------------------------------------------------------ bounds
\* How many runs of the script are followed one after the other.
MaxRuns == 2
\* How many rows the monitor table holds before the first run.
MaxInit == 2

\* --------------------------------------------------------------- constants
MOCK_SERVER_BASE ==
  <<"h","t","t","p",":","/","/","h","o","s","t",".","d","o","c","k","e","r",".","i","n","t","e","r","n","a","l",":","3","0","0","0">>
DEFAULT_USER_ID == 1
\* The literal of `monitor.timeout ?? 48`.
DEFAULT_TIMEOUT == 48

\* A nullable SQL / JS value: <<>> is null, <<v>> is the value v.
Null == <<>>
Some(v) == <<v>>

\* ------------------------------------------------------------- the catalogue
\* Three entries of the `monitors` table of the source: one with neither
\* optional field, one with a timeout, one with a keyword.  An optional field
\* a definition omits is absent from the record's DOMAIN.
AlwaysUp ==
  [name |-> "Always Up",
   path |-> <<"/","a","l","w","a","y","s","-","u","p">>,
   description |-> "Always returns 200 OK"]
SlowResponse ==
  [name |-> "Slow Response",
   path |-> <<"/","s","l","o","w","-","r","e","s","p","o","n","s","e">>,
   description |-> "2-5 second delay",
   timeout |-> 10]
KeywordCheck ==
  [name |-> "Keyword Check",
   path |-> <<"/","k","e","y","w","o","r","d","-","c","h","e","c","k">>,
   description |-> "JSON with monitorable keywords",
   keyword |-> "OPERATIONAL"]
\* A definition that repeats the path of AlwaysUp under another name: the
\* catalogue is not checked for duplicate paths.
AlwaysUpAgain ==
  [name |-> "Always Up (copy)",
   path |-> <<"/","a","l","w","a","y","s","-","u","p">>,
   description |-> "Same path as Always Up",
   timeout |-> 5]

monitors == <<AlwaysUp, SlowResponse, KeywordCheck>>

\* The catalogues a run is followed with: the prefixes of `monitors` and two
\* catalogues with a repeated path.
Catalogues ==
  { SubSeq(monitors, 1, n) : n \in 0..Len(monitors) }
    \cup { <<AlwaysUp, AlwaysUpAgain>>, <<KeywordCheck, AlwaysUp, AlwaysUpAgain>> }

\* ------------------------------------------------------------ text operators
UpperAlpha ==
  <<"A","B","C","D","E","F","G","H","I","J","K","L","M","N","O","P","Q","R","S","T","U","V","W","X","Y","Z">>
LowerAlpha ==
  <<"a","b","c","d","e","f","g","h","i","j","k","l","m","n","o","p","q","r","s","t","u","v","w","x","y","z">>

\* SQLite folds the ASCII letters when LIKE compares two characters.
ToLower(c) ==
  IF \E i \in DOMAIN UpperAlpha : UpperAlpha[i] = c
    THEN LowerAlpha[CHOOSE i \in DOMAIN UpperAlpha : UpperAlpha[i] = c]
    ELSE c

\* s begins with p, character for character.
StartsWith(s, p) ==
  /\ Len(p) <= Len(s)
  /\ \A i \in 1..Len(p) : s[i] = p[i]

\* SQLite's LIKE: `%` matches any run of characters, `_` any one character,
\* every other character matches itself without regard to ASCII case.
RECURSIVE Like(_, _)
Like(s, pat) ==
  IF pat = <<>> THEN s = <<>>
  ELSE IF Head(pat) = "%"
    THEN \E k \in 0..Len(s) : Like(SubSeq(s, k + 1, Len(s)), Tail(pat))
  ELSE IF s = <<>> THEN FALSE
  ELSE IF Head(pat) = "_" THEN Like(Tail(s), Tail(pat))
  ELSE ToLower(Head(s)) = ToLower(Head(pat)) /\ Like(Tail(s), Tail(pat))

\* `${MOCK_SERVER_BASE}${monitor.path}`
UrlOf(monitor) == MOCK_SERVER_BASE \o monitor.path

\* Variant: the timeout parameter bound to the default for every definition.
TimeoutOfDefaultOnly(monitor) == DEFAULT_TIMEOUT

\* `monitor.timeout ?? 48`
TimeoutOf(monitor) ==
  IF "timeout" \in DOMAIN monitor THEN monitor.timeout ELSE DEFAULT_TIMEOUT

\* `monitor.keyword ?? null`
KeywordOf(monitor) ==
  IF "keyword" \in DOMAIN monitor THEN Some(monitor.keyword) ELSE Null

\* The row insertStmt.run writes for a definition.  The other columns of the
\* INSERT are literals, the same for every row, and are left out.
NewRow(id, monitor) ==
  [id |-> id,
   name |-> monitor.name,
   user_id |-> DEFAULT_USER_ID,
   url |-> Some(UrlOf(monitor)),
   timeout |-> TimeoutOf(monitor),
   description |-> monitor.description,
   keyword |-> KeywordOf(monitor)]

\* Variants of the existence check, each a slip the query could contain: one
\* that finds nothing, one that looks for the url with a trailing slash, and
\* one that compares with LIKE instead of `=`.
ExistingNone(rows, url) == {}
ExistingTrailingSlash(rows, url) ==
  { r \in rows : r.url # Null /\ r.url[1] = url \o <<"/">> }
ExistingLike(rows, url) == { r \in rows : r.url # Null /\ Like(r.url[1], url) }

\* SELECT id FROM monitor WHERE url = $url: the rows whose url is not null
\* and equals the parameter byte for byte.
Existing(rows, url) == { r \in rows : r.url # Null /\ r.url[1] = url }

\* url LIKE '${MOCK_SERVER_BASE}%': null LIKE anything is null, not true.
ClearPattern == MOCK_SERVER_BASE \o <<"%">>
Cleared(rows) == { r \in rows : r.url # Null /\ Like(r.url[1], ClearPattern) }

\* Variant: SELECT COUNT(keyword), which leaves out the rows whose keyword
\* is null.
CountRowsNonNull(rows) == Cardinality({ r \in rows : r.keyword # Null })

\* SELECT COUNT(*) as count FROM monitor
CountRows(rows) == Cardinality(rows)

\* args.includes(flag)
Includes(args, flag) == \E i \in DOMAIN args : args[i] = flag

\* The command lines a run is started with.
ArgLists ==
  { <<>>, <<"--clear">>, <<"-c">>, <<"--force">>, <<"-f">>,
    <<"--clear", "--force">>, <<"-f", "-c">>, <<"--verbose">> }

\* ------------------------------------------------- rows present before a run
\* Rows the monitoring application may hold before the script first runs:
\* left by an earlier seed, edited by the operator, or made by hand.
PriorRows ==
  { [id |-> 1, name |-> "Always Up", user_id |-> 1,
     url |-> Some(MOCK_SERVER_BASE \o <<"/","a","l","w","a","y","s","-","u","p">>),
     timeout |-> 48, description |-> "Always returns 200 OK", keyword |-> Null],
    [id |-> 2, name |-> "Slow (edited)", user_id |-> 1,
     url |-> Some(MOCK_SERVER_BASE \o <<"/","s","l","o","w","-","r","e","s","p","o","n","s","e">>),
     timeout |-> 30, description |-> "edited by hand", keyword |-> Some("ok")],
    [id |-> 3, name |-> "Always Up", user_id |-> 1,
     url |-> Some(MOCK_SERVER_BASE \o <<"/","a","l","w","a","y","s","-","u","p">>),
     timeout |-> 48, description |-> "Always returns 200 OK", keyword |-> Null],
    [id |-> 4, name |-> "Retired", user_id |-> 1,
     url |-> Some(MOCK_SERVER_BASE \o <<"/","o","l","d">>),
     timeout |-> 48, description |-> "no longer in the catalogue", keyword |-> Null],
    [id |-> 5, name |-> "Always Up", user_id |-> 1,
     url |-> Some(<<"H","T","T","P",":","/","/","H","O","S","T",".","D","O","C","K","E","R",".","I","N","T","E","R","N","A","L",":","3","0","0","0","/","a","l","w","a","y","s","-","u","p">>),
     timeout |-> 48, description |-> "typed in by the operator", keyword |-> Null],
    [id |-> 6, name |-> "Example", user_id |-> 1,
     url |-> Some(<<"h","t","t","p","s",":","/","/","e","x","a","m","p","l","e",".","c","o","m","/">>),
     timeout |-> 48, description |-> "unrelated site", keyword |-> Null],
    [id |-> 7, name |-> "Gateway ping", user_id |-> 1,
     url |-> Null,
     timeout |-> 48, description |-> "a monitor without url", keyword |-> Null] }

InitialStorages == { s \in SUBSET PriorRows : Cardinality(s) <= MaxInit }

\* The largest id in use, 0 for none: the next rowid is one more.
MaxId(rows) ==
  IF rows = {} THEN 0
  ELSE CHOOSE m \in { r.id : r \in rows } : \A r \in rows : r.id <= m


\* ------------------------------------------------------------------- state
VARIABLES
  catalogue,     \* the `monitors` table the script was built with
  storage,       \* the rows of the monitor table
  nextId,        \* the id the table gives its next row
  runs,          \* how many runs of the script have been started
  dbExists,      \* existsSync(DB_PATH) for this run
  pc,            \* where main() is
  dbOpen,        \* the Database handle is open
  shouldClear,   \* main's local
  shouldForce,   \* main's local
  idx,           \* position of seedMonitors' loop in the catalogue, from 1
  inserted,      \* seedMonitors' local
  skipped,       \* seedMonitors' local
  changes,       \* result.changes of the last clearMonitors
  total,         \* countResult.count
  failure,       \* the step that threw in this run, "none" for none
  exitCode,      \* the process's exit status, -1 while it runs
  log,           \* the lines this run has printed
  created,       \* history: ids of the rows insertStmt.run has written
  startStorage,  \* history: the table as it was when this run started
  seedStorage,   \* history: the table as it was when seedMonitors was called
  prevSeed,      \* history: the table as the last completed seedMonitors of
                 \* an earlier run left it, Null once a clear ran after it
  prevSeedFrom,  \* history: the table as that seedMonitors found it
  closes         \* how many times this run has called db.close()

vars ==
  <<catalogue, storage, nextId, runs, dbExists, pc, dbOpen, shouldClear,
    shouldForce, idx, inserted, skipped, changes, total, failure, exitCode,
    log, created, startStorage, seedStorage, prevSeed, prevSeedFrom, closes>>

\* One printed line: what it reports, the definition it names and its counts.
Line(kind, name, n, m) == [kind |-> kind, name |-> name, n |-> n, m |-> m]

\* The locals of a run, as they are before main() has done anything.
FreshRun ==
  /\ pc' = "start"
  /\ dbOpen' = FALSE
  /\ shouldClear' = FALSE
  /\ shouldForce' = FALSE
  /\ idx' = 0
  /\ inserted' = 0
  /\ skipped' = 0
  /\ changes' = 0
  /\ total' = 0
  /\ failure' = "none"
  /\ exitCode' = -1
  /\ log' = <<>>
  /\ closes' = 0

Init ==
  /\ catalogue \in Catalogues
  /\ storage \in InitialStorages
  /\ nextId = MaxId(PriorRows) + 1
  /\ runs = 1
  /\ dbExists \in BOOLEAN
  /\ pc = "start"
  /\ dbOpen = FALSE
  /\ shouldClear = FALSE
  /\ shouldForce = FALSE
  /\ idx = 0
  /\ inserted = 0
  /\ skipped = 0
  /\ changes = 0
  /\ total = 0
  /\ failure = "none"
  /\ exitCode = -1
  /\ log = <<>>
  /\ created = {}
  /\ startStorage = storage
  /\ seedStorage = {}
  /\ prevSeed = Null
  /\ prevSeedFrom = {}
  /\ closes = 0

\* ------------------------------------------------------------------- main
\* if (!existsSync(DB_PATH)) { console.error(...); process.exit(1); }
MissingDatabase ==
  /\ pc = "start"
  /\ ~dbExists
  /\ log' = Append(log, Line("not-found", "", 0, 0))
  /\ exitCode' = 1
  /\ pc' = "exited"
  /\ UNCHANGED <<closes, catalogue, storage, nextId, runs, dbExists, dbOpen,
                 shouldClear, shouldForce, idx, inserted, skipped, changes,
                 total, failure, created, startStorage, seedStorage, prevSeed, prevSeedFrom>>

\* Variant: the database opened without the existsSync guard before it.
OpenDatabaseUnguarded ==
  /\ pc = "start"
  /\ dbOpen' = TRUE
  /\ pc' = "args"
  /\ UNCHANGED <<closes, catalogue, storage, nextId, runs, dbExists, shouldClear,
                 shouldForce, idx, inserted, skipped, changes, total, failure,
                 exitCode, log, created, startStorage, seedStorage, prevSeed, prevSeedFrom>>

\* const db = new Database(DB_PATH);
OpenDatabase ==
  /\ pc = "start"
  /\ dbExists
  /\ dbOpen' = TRUE
  /\ pc' = "args"
  /\ UNCHANGED <<closes, catalogue, storage, nextId, runs, dbExists, shouldClear,
                 shouldForce, idx, inserted, skipped, changes, total, failure,
                 exitCode, log, created, startStorage, seedStorage, prevSeed, prevSeedFrom>>

\* new Database throws (the file is no database, or is locked): the throw is
\* outside the try, the process ends with the uncaught error.
OpenFails ==
  /\ pc = "start"
  /\ dbExists
  /\ failure' = "open"
  /\ exitCode' = 1
  /\ pc' = "exited"
  /\ UNCHANGED <<closes, catalogue, storage, nextId, runs, dbExists, dbOpen,
                 shouldClear, shouldForce, idx, inserted, skipped, changes,
                 total, log, created, startStorage, seedStorage, prevSeed, prevSeedFrom>>

\* const args = process.argv.slice(2); shouldClear = ...; shouldForce = ...
ParseArgs ==
  /\ pc = "args"
  /\ \E args \in ArgLists :
       /\ shouldClear' = (Includes(args, "--clear") \/ Includes(args, "-c"))
       /\ shouldForce' = (Includes(args, "--force") \/ Includes(args, "-f"))
  /\ pc' = "clear"
  /\ UNCHANGED <<closes, catalogue, storage, nextId, runs, dbExists, dbOpen, idx,
                 inserted, skipped, changes, total, failure, exitCode, log,
                 created, startStorage, seedStorage, prevSeed, prevSeedFrom>>

\* clearMonitors(db): the DELETE and the line that reports result.changes.
clearMonitors ==
  /\ storage' = storage \ Cleared(storage)
  /\ changes' = Cardinality(Cleared(storage))
  /\ log' = Append(log, Line("cleared", "", Cardinality(Cleared(storage)), 0))
  /\ prevSeed' = Null
  /\ prevSeedFrom' = {}

\* if (shouldClear) { clearMonitors(db); }
ClearIfClear ==
  /\ pc = "clear"
  /\ IF shouldClear THEN clearMonitors
     ELSE UNCHANGED <<storage, changes, log, prevSeed, prevSeedFrom>>
  /\ pc' = "force"
  /\ UNCHANGED <<closes, catalogue, nextId, runs, dbExists, dbOpen, shouldClear,
                 shouldForce, idx, inserted, skipped, total, failure, exitCode,
                 created, startStorage, seedStorage>>

\* Variant: the force flag parsed but not acted on.
ClearIfForceSkipped ==
  /\ pc = "force"
  /\ pc' = "seed"
  /\ UNCHANGED <<closes, catalogue, storage, nextId, runs, dbExists, dbOpen,
                 shouldClear, shouldForce, idx, inserted, skipped, changes,
                 total, failure, exitCode, log, created, startStorage,
                 seedStorage, prevSeed, prevSeedFrom>>

\* if (shouldForce) { clearMonitors(db); }
ClearIfForce ==
  /\ pc = "force"
  /\ IF shouldForce THEN clearMonitors
     ELSE UNCHANGED <<storage, changes, log, prevSeed, prevSeedFrom>>
  /\ pc' = "seed"
  /\ UNCHANGED <<closes, catalogue, nextId, runs, dbExists, dbOpen, shouldClear,
                 shouldForce, idx, inserted, skipped, total, failure, exitCode,
                 created, startStorage, seedStorage>>

\* db.run(DELETE ...) throws: the statement deletes nothing, control goes to
\* the finally block.
ClearFails ==
  /\ \/ pc = "clear" /\ shouldClear
     \/ pc = "force" /\ shouldForce
  /\ failure' = "clear"
  /\ pc' = "finally"
  /\ UNCHANGED <<closes, catalogue, storage, nextId, runs, dbExists, dbOpen,
                 shouldClear, shouldForce, idx, inserted, skipped, changes,
                 total, exitCode, log, created, startStorage, seedStorage, prevSeed, prevSeedFrom>>

\* ------------------------------------------------------------ seedMonitors
\* The two db.prepare calls and `let inserted = 0; let skipped = 0;`.
SeedBegin ==
  /\ pc = "seed"
  /\ idx' = 1
  /\ inserted' = 0
  /\ skipped' = 0
  /\ seedStorage' = storage
  /\ pc' = "loop"
  /\ UNCHANGED <<closes, catalogue, storage, nextId, runs, dbExists, dbOpen,
                 shouldClear, shouldForce, changes, total, failure, exitCode,
                 log, created, startStorage, prevSeed, prevSeedFrom>>

\* db.prepare throws (the table or one of the columns is not there).
PrepareFails ==
  /\ pc = "seed"
  /\ failure' = "prepare"
  /\ pc' = "finally"
  /\ UNCHANGED <<closes, catalogue, storage, nextId, runs, dbExists, dbOpen,
                 shouldClear, shouldForce, idx, inserted, skipped, changes,
                 total, exitCode, log, created, startStorage, seedStorage, prevSeed, prevSeedFrom>>

\* Variant: INSERT OR REPLACE with the name as the conflict key.
InsertedOrReplaced(rows, id, monitor) ==
  { r \in rows : r.name # monitor.name } \cup { NewRow(id, monitor) }

\* Variant: INSERT OR IGNORE that a constraint makes ignore every row.
InsertedOrIgnored(rows, id, monitor) == rows

\* The table after insertStmt.run has added a row for the definition.
Inserted(rows, id, monitor) == rows \cup { NewRow(id, monitor) }

\* Variant: the existence check answered from the rows read before the loop,
\* so that it does not see the rows this run has inserted.
SeedStepStale ==
  /\ pc = "loop"
  /\ idx <= Len(catalogue)
  /\ LET monitor == catalogue[idx]
         url == UrlOf(monitor)
     IN  IF Existing(seedStorage, url) # {}
           THEN /\ log' = Append(log, Line("skipped", monitor.name, 0, 0))
                /\ skipped' = skipped + 1
                /\ UNCHANGED <<storage, nextId, inserted, created>>
           ELSE /\ storage' = Inserted(storage, nextId, monitor)
                /\ created' = created \cup { nextId }
                /\ nextId' = nextId + 1
                /\ log' = Append(log, Line("inserted", monitor.name, 0, 0))
                /\ inserted' = inserted + 1
                /\ UNCHANGED skipped
  /\ idx' = idx + 1
  /\ UNCHANGED <<closes, catalogue, runs, dbExists, pc, dbOpen, shouldClear,
                 shouldForce, changes, total, failure, exitCode, startStorage,
                 seedStorage, prevSeed, prevSeedFrom>>

\* Variant: the skip branch without `skipped++`.
SeedStepSkipUncounted ==
  /\ pc = "loop"
  /\ idx <= Len(catalogue)
  /\ LET monitor == catalogue[idx]
         url == UrlOf(monitor)
     IN  IF Existing(storage, url) # {}
           THEN /\ log' = Append(log, Line("skipped", monitor.name, 0, 0))
                /\ skipped' = skipped
                /\ UNCHANGED <<storage, nextId, inserted, created>>
           ELSE /\ storage' = Inserted(storage, nextId, monitor)
                /\ created' = created \cup { nextId }
                /\ nextId' = nextId + 1
                /\ log' = Append(log, Line("inserted", monitor.name, 0, 0))
                /\ inserted' = inserted + 1
                /\ UNCHANGED skipped
  /\ idx' = idx + 1
  /\ UNCHANGED <<closes, catalogue, runs, dbExists, pc, dbOpen, shouldClear,
                 shouldForce, changes, total, failure, exitCode, startStorage,
                 seedStorage, prevSeed, prevSeedFrom>>

\* One turn of `for (const monitor of monitors)` in which no call throws:
\* the existence check, then either the skip or the insert.
SeedStep ==
  /\ pc = "loop"
  /\ idx <= Len(catalogue)
  /\ LET monitor == catalogue[idx]
         url == UrlOf(monitor)
     IN  IF Existing(storage, url) # {}
           THEN /\ log' = Append(log, Line("skipped", monitor.name, 0, 0))
                /\ skipped' = skipped + 1
                /\ UNCHANGED <<storage, nextId, inserted, created>>
           ELSE /\ storage' = Inserted(storage, nextId, monitor)
                /\ created' = created \cup { nextId }
                /\ nextId' = nextId + 1
                /\ log' = Append(log, Line("inserted", monitor.name, 0, 0))
                /\ inserted' = inserted + 1
                /\ UNCHANGED skipped
  /\ idx' = idx + 1
  /\ UNCHANGED <<closes, catalogue, runs, dbExists, pc, dbOpen, shouldClear,
                 shouldForce, changes, total, failure, exitCode, startStorage,
                 seedStorage, prevSeed, prevSeedFrom>>

\* existingStmt.get throws for the definition at idx.
ExistingFails ==
  /\ pc = "loop"
  /\ idx <= Len(catalogue)
  /\ failure' = "existing"
  /\ pc' = "finally"
  /\ UNCHANGED <<closes, catalogue, storage, nextId, runs, dbExists, dbOpen,
                 shouldClear, shouldForce, idx, inserted, skipped, changes,
                 total, exitCode, log, created, startStorage, seedStorage, prevSeed, prevSeedFrom>>

\* Variant: the loop inside a transaction that the throw rolls back.
InsertFailsRollback ==
  /\ pc = "loop"
  /\ idx <= Len(catalogue)
  /\ Existing(storage, UrlOf(catalogue[idx])) = {}
  /\ failure' = "insert"
  /\ storage' = seedStorage
  /\ pc' = "finally"
  /\ UNCHANGED <<closes, catalogue, nextId, runs, dbExists, dbOpen, shouldClear,
                 shouldForce, idx, inserted, skipped, changes, total, exitCode,
                 log, created, startStorage, seedStorage, prevSeed, prevSeedFrom>>

\* insertStmt.run throws for the definition at idx: the row is not written.
InsertFails ==
  /\ pc = "loop"
  /\ idx <= Len(catalogue)
  /\ Existing(storage, UrlOf(catalogue[idx])) = {}
  /\ failure' = "insert"
  /\ pc' = "finally"
  /\ UNCHANGED <<closes, catalogue, storage, nextId, runs, dbExists, dbOpen,
                 shouldClear, shouldForce, idx, inserted, skipped, changes,
                 total, exitCode, log, created, startStorage, seedStorage, prevSeed, prevSeedFrom>>

\* The loop is over: the summary line, and seedMonitors returns.
SeedEnd ==
  /\ pc = "loop"
  /\ idx > Len(catalogue)
  /\ log' = Append(log, Line("summary", "", inserted, skipped))
  /\ pc' = "count"
  /\ UNCHANGED <<closes, catalogue, storage, nextId, runs, dbExists, dbOpen,
                 shouldClear, shouldForce, idx, inserted, skipped, changes,
                 total, failure, exitCode, created, startStorage, seedStorage, prevSeed, prevSeedFrom>>

\* ------------------------------------------------------- the rest of main
\* const countResult = db.query("SELECT COUNT(*) ...").get(); and its line.
CountMonitors ==
  /\ pc = "count"
  /\ total' = CountRows(storage)
  /\ log' = Append(log, Line("total", "", CountRows(storage), 0))
  /\ pc' = "finally"
  /\ UNCHANGED <<closes, catalogue, storage, nextId, runs, dbExists, dbOpen,
                 shouldClear, shouldForce, idx, inserted, skipped, changes,
                 failure, exitCode, created, startStorage, seedStorage, prevSeed, prevSeedFrom>>

\* The count query throws.
CountFails ==
  /\ pc = "count"
  /\ failure' = "count"
  /\ pc' = "finally"
  /\ UNCHANGED <<closes, catalogue, storage, nextId, runs, dbExists, dbOpen,
                 shouldClear, shouldForce, idx, inserted, skipped, changes,
                 total, exitCode, log, created, startStorage, seedStorage, prevSeed, prevSeedFrom>>

\* Variant: a catch block that swallows the error, so that main goes on to
\* its last lines.
FinallySwallow ==
  /\ pc = "finally"
  /\ dbOpen' = FALSE
  /\ closes' = closes + 1
  /\ pc' = "complete"
  /\ UNCHANGED <<catalogue, storage, nextId, runs, dbExists, shouldClear,
                 shouldForce, idx, inserted, skipped, changes, total, failure,
                 exitCode, log, created, startStorage, seedStorage, prevSeed,
                 prevSeedFrom>>

\* Variant: no finally block, so that the handle is left open.
FinallyNoClose ==
  /\ pc = "finally"
  /\ IF failure = "none"
       THEN pc' = "complete" /\ UNCHANGED exitCode
       ELSE pc' = "exited" /\ exitCode' = 1
  /\ UNCHANGED <<closes, catalogue, storage, nextId, runs, dbExists, dbOpen,
                 shouldClear, shouldForce, idx, inserted, skipped, changes,
                 total, failure, log, created, startStorage, seedStorage,
                 prevSeed, prevSeedFrom>>

\* finally { db.close(); }: after it a pending error leaves main and ends the
\* process, otherwise main goes on to its last two lines.
Finally ==
  /\ pc = "finally"
  /\ dbOpen' = FALSE
  /\ closes' = closes + 1
  /\ IF failure = "none"
       THEN pc' = "complete" /\ UNCHANGED exitCode
       ELSE pc' = "exited" /\ exitCode' = 1
  /\ UNCHANGED <<catalogue, storage, nextId, runs, dbExists, shouldClear,
                 shouldForce, idx, inserted, skipped, changes, total, failure,
                 log, created, startStorage, seedStorage, prevSeed, prevSeedFrom>>

\* console.log("Migration complete!") and the return of main.
Complete ==
  /\ pc = "complete"
  /\ log' = Append(log, Line("complete", "", 0, 0))
  /\ exitCode' = 0
  /\ pc' = "exited"
  /\ UNCHANGED <<closes, catalogue, storage, nextId, runs, dbExists, dbOpen,
                 shouldClear, shouldForce, idx, inserted, skipped, changes,
                 total, failure, created, startStorage, seedStorage, prevSeed, prevSeedFrom>>

\* seedMonitors returned in this run: its summary line is printed.
SeedCompleted == \E i \in DOMAIN log : log[i].kind = "summary"

\* The operator runs the script again; the database file may have been moved
\* away or put back in between.
NewRun ==
  /\ pc = "exited"
  /\ runs < MaxRuns
  /\ runs' = runs + 1
  /\ dbExists' \in BOOLEAN
  /\ startStorage' = storage
  /\ seedStorage' = {}
  /\ prevSeed' = IF SeedCompleted THEN Some(storage) ELSE prevSeed
  /\ prevSeedFrom' = IF SeedCompleted THEN seedStorage ELSE prevSeedFrom
  /\ FreshRun
  /\ UNCHANGED <<catalogue, storage, nextId, created>>

Next ==
  \/ MissingDatabase
  \/ OpenDatabase
  \/ OpenFails
  \/ ParseArgs
  \/ ClearIfClear
  \/ ClearIfForce
  \/ ClearFails
  \/ SeedBegin
  \/ PrepareFails
  \/ SeedStep
  \/ ExistingFails
  \/ InsertFails
  \/ SeedEnd
  \/ CountMonitors
  \/ CountFails
  \/ Finally
  \/ Complete
  \/ NewRun

Spec == Init /\ [][Next]_vars

\* A step of the run in progress.  main() is synchronous, straight-line code:
\* a run that has started goes on until the process exits.  Whether the
\* operator starts another run is left open.
RunStep ==
  \/ MissingDatabase
  \/ OpenDatabase
  \/ OpenFails
  \/ ParseArgs
  \/ ClearIfClear
  \/ ClearIfForce
  \/ ClearFails
  \/ SeedBegin
  \/ PrepareFails
  \/ SeedStep
  \/ ExistingFails
  \/ InsertFails
  \/ SeedEnd
  \/ CountMonitors
  \/ CountFails
  \/ Finally
  \/ Complete

\* The runs whose progress is checked start from a table of one row at most:
\* which rows the table holds has no part in whether a run goes on.
LiveInit == Init /\ Cardinality(storage) <= 1

LiveSpec == LiveInit /\ [][Next]_vars /\ WF_vars(RunStep)

\* ------------------------------------------------------------- properties
\* The url of the row is the base URL followed by something, compared
\* character for character with regard to case.
UnderBase(r) == r.url # Null /\ StartsWith(r.url[1], MOCK_SERVER_BASE)

\* The lines of this run that report a definition, in the order printed.
DefinitionLines == SelectSeq(log, LAMBDA l : l.kind \in {"inserted", "skipped"})

\* C1: idempotence of seed.  When seedMonitors has returned in a run that
\* follows a completed seedMonitors with no clear in between, it has inserted
\* nothing, it has reported every definition of the catalogue as skipped, and
\* the table is what the earlier seedMonitors left.
C1_SeedIdempotent ==
  (pc = "count" /\ prevSeed # Null) =>
    /\ inserted = 0
    /\ skipped = Len(catalogue)
    /\ Len(DefinitionLines) = Len(catalogue)
    /\ \A i \in DOMAIN DefinitionLines :
         /\ DefinitionLines[i].kind = "skipped"
         /\ DefinitionLines[i].name = catalogue[i].name
    /\ storage = prevSeed[1]

\* A second seed has returned after a first that wrote rows for a catalogue
\* of two definitions or more.
C1_Witness ==
  /\ pc = "count"
  /\ prevSeed # Null
  /\ Len(catalogue) >= 2
  /\ skipped = Len(catalogue)
  /\ \E r \in storage : r.id \in created

\* C2: uniqueness.  In every state, a row that the seeder wrote is the only
\* row of the table with its url: the seeder has never written a row whose
\* url a row of the table already had, so no two rows it wrote share a url.
C2_OnePerUrl ==
  \A r \in storage :
    r.id \in created => \A q \in storage : q.url = r.url => q = r

\* After a clear and a second seed the table holds rows written by the
\* seeder in two different runs, beside a row it did not write.
C2_Witness ==
  /\ runs = 2
  /\ pc = "exited"
  /\ exitCode = 0
  /\ changes > 0
  /\ Cardinality({ r \in storage : r.id \in created }) >= 2
  /\ \E r \in storage : r.id \notin created
  /\ \E id \in created : \A r \in storage : r.id # id

\* A step taken where main may call clearMonitors keeps the rows that are not
\* under the base URL.
ClearKeepsOthers ==
  pc \in {"clear", "force"} =>
    \A r \in storage : ~UnderBase(r) => r \in storage'

\* C3: clear never over-deletes.  A step of clearMonitors leaves every row
\* whose url does not begin with the base URL, case-sensitively, in the table
\* as it was.
C3_ClearKeepsOthers == [][ClearKeepsOthers]_vars

\* A step in which clearMonitors ran leaves no row under the base URL and
\* reports the number of such rows there were.
ClearDeletesExactlyUnderBase ==
  (pc \in {"clear", "force"} /\ Len(log') > Len(log)) =>
    /\ \A r \in storage' : ~UnderBase(r)
    /\ changes' = Cardinality({ r \in storage : UnderBase(r) })
    /\ log'[Len(log')] = Line("cleared", "", changes', 0)

\* C4: clear deletes everything under the base.  After a step in which
\* clearMonitors ran, no row whose url begins with the base URL is left, and
\* the count it reported is the number of such rows before the step.
C4_ClearDeletesExactlyUnderBase == [][ClearDeletesExactlyUnderBase]_vars

\* A turn of the seed loop skips or inserts by the byte-equal url alone.
NaturalKeyStep ==
  (pc = "loop" /\ idx' = idx + 1) =>
       LET monitor == catalogue[idx]
           url == MOCK_SERVER_BASE \o monitor.path
           held == \E r \in storage : r.url = <<url>>
       IN  /\ held <=> (skipped' = skipped + 1 /\ inserted' = inserted /\ storage' = storage)
           /\ ~held <=> /\ skipped' = skipped
                        /\ inserted' = inserted + 1
                        /\ \E r \in storage' \ storage :
                             r.url = <<url>> /\ storage' = storage \cup {r}
           /\ \A j \in DOMAIN catalogue :
                catalogue[j].path # monitor.path =>
                  Existing({ NewRow(0, monitor) }, UrlOf(catalogue[j])) = {}

\* C5: natural-key correctness.  A turn of the seed loop skips the definition
\* exactly when the table holds a row whose url is the base URL followed by
\* the definition's path, byte for byte, and writes a row with that url
\* otherwise; the row written for one definition is not found by the
\* existence check of a definition with another path.
C5_NaturalKey == [][NaturalKeyStep]_vars

\* A turn of the loop has written a row although the table holds a row whose
\* url differs from the definition's only in the case of its letters, and a
\* later turn has skipped.
C5_Witness ==
  /\ pc = "loop"
  /\ inserted >= 1
  /\ skipped >= 1
  /\ \E r \in storage : \E q \in storage :
       /\ r.id \in created
       /\ q.id \notin created
       /\ q.url # Null
       /\ q.url # r.url
       /\ Like(q.url[1], r.url[1])

\* No two definitions of the catalogue have the same path.
DistinctPaths(c) ==
  \A i \in DOMAIN c : \A j \in DOMAIN c : i # j => c[i].path # c[j].path

\* The lines of this run of the given kind.
LinesOf(kind) == SelectSeq(log, LAMBDA l : l.kind = kind)

\* C6: summary accuracy.  When seedMonitors was called on an empty table with
\* a catalogue of pairwise distinct paths and has returned, it has inserted
\* as many rows as the catalogue has definitions and skipped none, its
\* summary line says so, and the count query that follows returns and prints
\* the number of definitions.
C6_SummaryAccuracy ==
  (DistinctPaths(catalogue) /\ seedStorage = {} /\ SeedCompleted) =>
    /\ inserted = Len(catalogue)
    /\ skipped = 0
    /\ LinesOf("summary") = << Line("summary", "", Len(catalogue), 0) >>
    /\ LinesOf("total") # <<>> =>
         /\ total = Len(catalogue)
         /\ LinesOf("total") = << Line("total", "", Len(catalogue), 0) >>

\* The count query has run after a seed of three definitions on an empty
\* table.
C6_Witness ==
  /\ DistinctPaths(catalogue)
  /\ Len(catalogue) = Len(monitors)
  /\ seedStorage = {}
  /\ SeedCompleted
  /\ LinesOf("total") # <<>>
  /\ pc = "exited"
  /\ exitCode = 0

\* C7: default fallback.  Every row the seeder wrote is the row of a
\* definition of the catalogue: it has the definition's name, description
\* and url, the definition's timeout or the default timeout if it has none,
\* and the definition's keyword or null if it has none.
C7_DefaultFallback ==
  \A r \in storage :
    r.id \in created =>
      \E i \in DOMAIN catalogue :
        LET monitor == catalogue[i]
        IN  /\ r.name = monitor.name
            /\ r.description = monitor.description
            /\ r.url = << MOCK_SERVER_BASE \o monitor.path >>
            /\ r.user_id = DEFAULT_USER_ID
            /\ r.timeout = IF "timeout" \in DOMAIN monitor
                             THEN monitor.timeout ELSE DEFAULT_TIMEOUT
            /\ r.keyword = IF "keyword" \in DOMAIN monitor
                             THEN << monitor.keyword >> ELSE Null

\* The seeder has written a row with the default timeout and a null keyword,
\* a row with its definition's timeout, and a row with its definition's
\* keyword.
C7_Witness ==
  /\ \E r \in storage :
       r.id \in created /\ r.timeout = DEFAULT_TIMEOUT /\ r.keyword = Null
  /\ \E r \in storage :
       r.id \in created /\ r.timeout = SlowResponse.timeout /\ r.keyword = Null
  /\ \E r \in storage :
       r.id \in created /\ r.keyword = << KeywordCheck.keyword >>

\* A step of seedMonitors keeps every row as it is, and a turn that skips
\* writes nothing.
SeedAdditiveStep ==
  pc \in {"seed", "loop"} =>
    /\ storage \subseteq storage'
    /\ skipped' # skipped => (storage' = storage /\ nextId' = nextId)

\* C8: seed is purely additive.  No step of seedMonitors removes a row or
\* changes a field of a row, whether or not the row's url is that of a
\* definition; a turn of the loop that skips leaves the table as it is.
C8_SeedAdditive == [][SeedAdditiveStep]_vars

\* seedMonitors has returned, having inserted and having skipped, and the
\* table still holds a row it did not write whose url is that of a
\* definition and whose timeout is not the definition's.
C8_Witness ==
  /\ pc = "count"
  /\ inserted >= 1
  /\ skipped >= 1
  /\ \E r \in storage : \E i \in DOMAIN catalogue :
       /\ r.id \notin created
       /\ r.url = << UrlOf(catalogue[i]) >>
       /\ r.timeout # TimeoutOf(catalogue[i])

\* C9: partial failure of seed.  When the insert for the definition at idx
\* has thrown, the run is in or past its finally block, the loop has stayed
\* at idx, exactly the definitions before idx have been reported, each as
\* inserted or skipped and in catalogue order, nothing has been printed after
\* them, every row the table held when seedMonitors was called is still
\* there, and so is the row of every definition reported as inserted.
C9_PartialFailure ==
  failure = "insert" =>
    /\ pc \in {"finally", "exited"}
    /\ idx \in 1..Len(catalogue)
    /\ Len(DefinitionLines) = idx - 1
    /\ inserted + skipped = idx - 1
    /\ \A l \in { log[i] : i \in DOMAIN log } :
         l.kind \in {"cleared", "inserted", "skipped"}
    /\ \A j \in 1..(idx - 1) :
         /\ DefinitionLines[j].name = catalogue[j].name
         /\ DefinitionLines[j].kind = "inserted" =>
              \E r \in storage \ seedStorage :
                /\ r.name = catalogue[j].name
                /\ r.url = << MOCK_SERVER_BASE \o catalogue[j].path >>
    /\ seedStorage \subseteq storage
    /\ Cardinality(storage \ seedStorage) = inserted
    /\ \A r \in storage : r.url # << MOCK_SERVER_BASE \o catalogue[idx].path >>

\* A run has ended on a failed insert after a turn that inserted and a turn
\* that skipped.
C9_Witness ==
  /\ failure = "insert"
  /\ pc = "exited"
  /\ exitCode = 1
  /\ inserted >= 1
  /\ skipped >= 1

\* C10: missing storage file.  In a run that finds no database file the
\* handle is never opened, main is either at its start or has exited, the
\* table is what it was when the run started, no clear, seed or count has
\* run, and once exited the status is 1 and the only line printed is the
\* error.
C10_MissingDatabase ==
  ~dbExists =>
    /\ ~dbOpen
    /\ pc \in {"start", "exited"}
    /\ storage = startStorage
    /\ failure = "none"
    /\ changes = 0 /\ inserted = 0 /\ skipped = 0 /\ idx = 0 /\ total = 0
    /\ pc = "start" => log = <<>> /\ exitCode = -1
    /\ pc = "exited" =>
         log = << Line("not-found", "", 0, 0) >> /\ exitCode = 1

\* The second run has found no file and exited, after a first run that
\* wrote rows.
C10_Witness ==
  /\ ~dbExists
  /\ pc = "exited"
  /\ runs = 2
  /\ \E r \in storage : r.id \in created

\* This run has acquired the storage handle: new Database has returned.
Acquired == dbExists /\ failure # "open" /\ pc # "start"

\* The handle is open until the one db.close() of the run, which comes after
\* every statement of the run, and a run that acquired it and has exited has
\* closed it once.
ReleasedOnce ==
  /\ closes <= 1
  /\ dbOpen <=> (Acquired /\ closes = 0)
  /\ closes = 1 => (Acquired /\ pc \in {"complete", "exited"})
  /\ (pc = "exited" /\ Acquired) => closes = 1

\* A step of a run that has closed the handle runs no statement.
NoUseAfterRelease ==
  (closes >= 1 /\ runs' = runs) =>
    /\ storage' = storage
    /\ nextId' = nextId
    /\ changes' = changes
    /\ total' = total
    /\ inserted' = inserted
    /\ skipped' = skipped
    /\ idx' = idx
    /\ closes' = closes

\* C11: guaranteed release of the storage handle.  A handle that is open is
\* eventually closed; a run closes its handle exactly once whether it ends
\* in success or in a failure of clear, seed or the count query; and after
\* the close the run performs no storage operation.
C11_HandleReleased ==
  /\ []ReleasedOnce
  /\ [][NoUseAfterRelease]_vars
  /\ (dbOpen ~> (~dbOpen /\ closes = 1))

\* A run has exited on a failure in seedMonitors with its handle closed once.
C11_Witness ==
  /\ pc = "exited"
  /\ failure \in {"existing", "insert"}
  /\ inserted >= 1
  /\ closes = 1
  /\ ~dbOpen

\* The table a seedMonitors that meets no failure leaves, called on `rows`
\* with `id` the next id and `defs` the definitions still to process.
RECURSIVE SeedAll(_, _, _)
SeedAll(rows, id, defs) ==
  IF defs = <<>> THEN rows
  ELSE IF Existing(rows, UrlOf(Head(defs))) # {}
    THEN SeedAll(rows, id, Tail(defs))
    ELSE SeedAll(Inserted(rows, id, Head(defs)), id + 1, Tail(defs))

\* The table one clear followed by one seed makes of the table this run
\* started with; the ids the seed gives are the ids this run gave.
ClearThenSeed ==
  SeedAll(startStorage \ Cleared(startStorage), nextId - inserted, catalogue)

\* C12: run modes.  A run with the clear flag, the force flag or both that
\* ends in success leaves the table that one clear followed by one seed
\* makes of the table it started with; in every run the lines of the clears
\* come before every line of the seed; a run with neither flag reports no
\* clear and keeps every row it started with.
C12_RunModes ==
  /\ \A i \in DOMAIN log : \A j \in DOMAIN log :
       (i < j /\ log[j].kind = "cleared") => log[i].kind = "cleared"
  /\ (pc = "exited" /\ exitCode = 0 /\ (shouldClear \/ shouldForce)) =>
       /\ storage = ClearThenSeed
       /\ Len(LinesOf("cleared")) =
            (IF shouldClear THEN 1 ELSE 0) + (IF shouldForce THEN 1 ELSE 0)
  /\ (~shouldClear /\ ~shouldForce) =>
       /\ LinesOf("cleared") = <<>>
       /\ changes = 0
       /\ startStorage \subseteq storage

\* A run with both flags has ended in success: its first clear deleted rows,
\* its second found none, and its seed inserted.
C12_Witness ==
  /\ pc = "exited"
  /\ exitCode = 0
  /\ shouldClear
  /\ shouldForce
  /\ Len(LinesOf("cleared")) = 2
  /\ LinesOf("cleared")[1].n >= 1
  /\ LinesOf("cleared")[2].n = 0
  /\ inserted >= 2
  /\ startStorage \ Cleared(startStorage) # {}

\* A step in which clearMonitors ran after a completed seed of a catalogue of
\* distinct paths, on a table that held no row under the base URL before
\* that seed, reports as many deleted rows as the catalogue has definitions
\* and leaves the table as it was before the seed.
RoundTripStep ==
  ( /\ pc \in {"clear", "force"}
    /\ Len(log') > Len(log)
    /\ prevSeed # Null
    /\ DistinctPaths(catalogue)
    /\ \A r \in prevSeedFrom : ~UnderBase(r) ) =>
    /\ changes' = Len(catalogue)
    /\ storage' = prevSeedFrom

\* C13: seed-then-clear round trip.  From a table with no row whose url
\* begins with the base URL, a seed of a catalogue of pairwise distinct paths
\* followed by a clear reports deleted = |C| and restores the table to what
\* it was before the seed.
C13_SeedClearRoundTrip == [][RoundTripStep]_vars

\* The kinds of the lines this run has printed.
Kinds == { log[i].kind : i \in DOMAIN log }

\* What holds of a run in which a step has thrown, and of a run that ended
\* in success.
FailFast ==
  /\ failure # "none" =>
       /\ pc \in {"finally", "exited"}
       /\ exitCode \in {-1, 1}
       /\ pc = "exited" => exitCode = 1
       /\ "complete" \notin Kinds
       /\ "total" \notin Kinds
       /\ failure = "open" => (log = <<>> /\ storage = startStorage /\ ~dbOpen)
       /\ failure = "clear" =>
            (Kinds \subseteq {"cleared"} /\ idx = 0 /\ inserted = 0 /\ skipped = 0)
       /\ failure \in {"prepare", "existing", "insert"} => "summary" \notin Kinds
       /\ failure = "prepare" => idx = 0
       /\ failure = "count" => SeedCompleted
  /\ exitCode = 0 =>
       /\ failure = "none"
       /\ pc = "exited"
       /\ Len(log) >= 3
       /\ log[Len(log) - 2].kind = "summary"
       /\ log[Len(log) - 1].kind = "total"
       /\ log[Len(log)].kind = "complete"

\* A step of a run in which a step has thrown runs no statement, prints no
\* line and does not clear the failure.
NoStepAfterFailure ==
  (failure # "none" /\ runs' = runs) =>
    /\ failure' = failure
    /\ storage' = storage
    /\ nextId' = nextId
    /\ log' = log
    /\ idx' = idx
    /\ inserted' = inserted
    /\ skipped' = skipped
    /\ changes' = changes
    /\ total' = total

\* C14: fail-fast run.  Once a step of a run has thrown (the clear, the
\* existence check, the insert or the count query), the run executes no later
\* step and repeats none, prints neither the total nor the completion line,
\* and exits with a non-zero status; a run exits with status 0 only when no
\* step has thrown, after the summary, total and completion lines.
C14_FailFast == []FailFast /\ [][NoStepAfterFailure]_vars

\* A run with both flags has exited with status 1 because its second clear
\* threw after its first had deleted rows.
C14_Witness ==
  /\ pc = "exited"
  /\ exitCode = 1
  /\ failure = "clear"
  /\ changes >= 1
  /\ Len(log) = 1

\* The rows of the table whose url is the url of the definition.
RowsOf(monitor) ==
  { r \in storage : r.url = << MOCK_SERVER_BASE \o monitor.path >> }

\* C15: duplicate path in the catalogue.  When the loop has passed two
\* definitions with the same path, the earlier being the first with that
\* path, and the table held no row with their url when seedMonitors was
\* called, the earlier has been reported inserted and the later skipped, and
\* the table holds exactly one row with that url, which carries the earlier
\* definition's name, timeout, description and keyword.
C15_DuplicatePath ==
  \A i \in DOMAIN catalogue : \A j \in DOMAIN catalogue :
    ( /\ i < j
      /\ j < idx
      /\ catalogue[i].path = catalogue[j].path
      /\ \A h \in 1..(i - 1) : catalogue[h].path # catalogue[i].path
      /\ \A r \in seedStorage : r.url # << MOCK_SERVER_BASE \o catalogue[i].path >> ) =>
      /\ DefinitionLines[i] = Line("inserted", catalogue[i].name, 0, 0)
      /\ DefinitionLines[j] = Line("skipped", catalogue[j].name, 0, 0)
      /\ Cardinality(RowsOf(catalogue[i])) = 1
      /\ \A r \in RowsOf(catalogue[i]) :
           /\ r.id \in created
           /\ r.name = catalogue[i].name
           /\ r.description = catalogue[i].description
           /\ r.timeout = IF "timeout" \in DOMAIN catalogue[i]
                            THEN catalogue[i].timeout ELSE DEFAULT_TIMEOUT
           /\ r.keyword = IF "keyword" \in DOMAIN catalogue[i]
                            THEN << catalogue[i].keyword >> ELSE Null

\* seedMonitors has returned for a catalogue of three definitions of which
\* the last two share a path, having inserted two rows and skipped once.
C15_Witness ==
  /\ pc = "count"
  /\ Len(catalogue) = 3
  /\ ~DistinctPaths(catalogue)
  /\ inserted = 2
  /\ skipped = 1
  /\ DefinitionLines[3].kind = "skipped"
  /\ RowsOf(catalogue[3]) \cap seedStorage = {}

\* C16: counter consistency.  While the loop runs, inserted + skipped is the
\* number of definitions processed so far; when seedMonitors has returned,
\* inserted + skipped is the number of definitions of the catalogue and the
\* table holds as many rows as when seedMonitors was called plus inserted.
C16_CounterConsistency ==
  /\ pc = "loop" =>
       /\ inserted + skipped = idx - 1
       /\ Cardinality(storage) = Cardinality(seedStorage) + inserted
       /\ Len(DefinitionLines) = idx - 1
  /\ SeedCompleted =>
       /\ inserted + skipped = Len(catalogue)
       /\ Cardinality(storage) = Cardinality(seedStorage) + inserted
       /\ LinesOf("summary") = << Line("summary", "", inserted, skipped) >>

\* seedMonitors has returned on a table that was not empty, having both
\* inserted and skipped.
C16_Witness ==
  /\ SeedCompleted
  /\ seedStorage # {}
  /\ inserted >= 1
  /\ skipped >= 1
  /\ Len(catalogue) = Len(monitors)

\* The paths of the catalogue.
Paths == { catalogue[i].path : i \in DOMAIN catalogue }

\* C17: completeness after a successful run.  When a run has exited with
\* status 0, whatever its flags and the table it started with, the table
\* holds for every definition of the catalogue a row whose url is the base
\* URL followed by the definition's path, and the total the run printed is
\* not smaller than the number of distinct paths of the catalogue.
C17_Complete ==
  (pc = "exited" /\ exitCode = 0) =>
    /\ \A i \in DOMAIN catalogue : RowsOf(catalogue[i]) # {}
    /\ total >= Cardinality(Paths)
    /\ LinesOf("total") = << Line("total", "", total, 0) >>

\* A run has ended in success for a catalogue of three definitions, having
\* inserted and skipped, on a table that holds more rows than the catalogue
\* has paths.
C17_Witness ==
  /\ pc = "exited"
  /\ exitCode = 0
  /\ Len(catalogue) = 3
  /\ inserted >= 1
  /\ skipped >= 1
  /\ total > Cardinality(Paths)

\* The row is what the seeder writes for some definition of the catalogue.
RowOfDefinition(r) ==
  \E i \in DOMAIN catalogue :
    /\ r.url = << MOCK_SERVER_BASE \o catalogue[i].path >>
    /\ r.name = catalogue[i].name
    /\ r.description = catalogue[i].description
    /\ r.timeout = IF "timeout" \in DOMAIN catalogue[i]
                     THEN catalogue[i].timeout ELSE DEFAULT_TIMEOUT
    /\ r.keyword = IF "keyword" \in DOMAIN catalogue[i]
                     THEN << catalogue[i].keyword >> ELSE Null

\* After a successful run with the clear or the force flag the rows under the
\* base URL are one row for each path of the catalogue, each the row of a
\* definition with that path.
OnePerPath ==
  (pc = "exited" /\ exitCode = 0 /\ (shouldClear \/ shouldForce)) =>
    /\ \A r \in storage : UnderBase(r) => RowOfDefinition(r)
    /\ \A i \in DOMAIN catalogue : Cardinality(RowsOf(catalogue[i])) = 1

\* C18: clean reset.  After a successful run with the clear or the force
\* flag, from any table, the rows whose url begins with the base URL are
\* exactly one row for each distinct path of the catalogue, each carrying the
\* name, timeout, description and keyword of a definition with that path, and
\* the rows whose url does not begin with the base URL are the rows the run
\* started with, unchanged.
C18_CleanReset ==
  /\ OnePerPath
  /\ (pc = "exited" /\ exitCode = 0 /\ (shouldClear \/ shouldForce)) =>
       { r \in storage : ~UnderBase(r) } = { r \in startStorage : ~UnderBase(r) }

====
